---- MODULE Spec2Model ----
(***************************************************************************)
(* Model of scripts/frr/parser.py: VyattaJSONParser, the translator of the *)
(* vyatta JSON configuration tree into FRR CLI lines.                      *)
(*                                                                         *)
(* Strings are TLA+ strings and paths are built with \o exactly as the     *)
(* code builds them with +.  The configuration tree is kept flat: a        *)
(* sequence of node records, node 1 being the root; a mapping's key order  *)
(* is the order of its kids, which is what move_to_end changes.            *)
(***************************************************************************)
EXTENDS Naturals, Sequences, FiniteSets, TLC

VARIABLES
    input,          \* what the run reads: config, priorities, commands dir, steps.json, ...
    tree,           \* self.tree
    syntax,         \* self.syntax
    syntax_files,   \* self.syntax_files (dict order = sequence order)
    steps,          \* self.steps
    parent_stack,   \* self.parent_stack
    output,         \* self.output
    frames,         \* the open depth_first_traverse generator frames
    pc,             \* where main() is
    stepIdx,        \* position of execute_steps' for loop
    sortCount,      \* completed sort_tree calls
    err,            \* the exception that ended the run, "none" while it runs
    written,        \* the line sequence output_config joined and handed to the writer
    yields          \* the (node, path) pairs the current traversal has yielded so far

vars == <<input, tree, syntax, syntax_files, steps, parent_stack, output,
          frames, pc, stepIdx, sortCount, err, written, yields>>

-----------------------------------------------------------------------------
(* Labels, parser.py lines 17-23 *)

TEXT_LEAF_LABEL == "@text"
LIST_ELEM_LABEL == "@element"
DICT_ELEM_LABEL == "@dict"
ENTER_LABEL == "@enter"
EXIT_LABEL == "@exit"
DIR_TRAVERSE_UP_LABEL == "¬"
SEPARATOR == "!"

(* vyatta.command.MISSING_VALUE_TEMPLATE: the "no value" result.  It is    *)
(* kept apart from every node of the tree.                                 *)
MISSING_VALUE_TEMPLATE == [res |-> "missing", node |-> 0, compound |-> FALSE]

-----------------------------------------------------------------------------
(* Bounds *)

MaxSorts == 2       \* sort_tree calls in one run
MaxPrioLen == 2     \* length of a priority entry's first / last list
MaxSteps == 2       \* steps in steps.json
MaxRefLen == 3      \* segments of a reference
MaxLoads == 2       \* direct SyntaxFile.load() calls on one entry after the run

-----------------------------------------------------------------------------
(* Sequence helpers *)

SeqsUpTo(S, n) == UNION {[1..k -> S] : k \in 0..n}

Range(s) == {s[i] : i \in 1..Len(s)}

Last(s) == s[Len(s)]

Front(s) == SubSeq(s, 1, Len(s) - 1)

Reverse(s) == [i \in 1..Len(s) |-> s[Len(s) + 1 - i]]

IsPrefix(s, t) == Len(s) <= Len(t) /\ SubSeq(t, 1, Len(s)) = s

NoDup(s) == \A i, j \in 1..Len(s) : s[i] = s[j] => i = j

Perms(S) == {p \in [1..Cardinality(S) -> S] : Range(p) = S}

-----------------------------------------------------------------------------
(* The configuration tree, as json.loads(..., object_pairs_hook=OrderedDict) *)
(* gives it.  kind: "map" (OrderedDict), "seq" (list), "str", "num" (int,      *)
(* float, bool, None: the scalars that are neither iterable nor indexable).  *)

Root == 1

Map(key, kids) == [kind |-> "map", key |-> key, val |-> "", kids |-> kids]
List(key, kids) == [kind |-> "seq", key |-> key, val |-> "", kids |-> kids]
Str(key, val) == [kind |-> "str", key |-> key, val |-> val, kids |-> <<>>]
Num(key, val) == [kind |-> "num", key |-> key, val |-> val, kids |-> <<>>]

Nodes(t) == 1..Len(t)

IsLeaf(t, n) == t[n].kind \in {"str", "num"}

Keys(t, n) == [i \in 1..Len(t[n].kids) |-> t[t[n].kids[i]].key]

\* {"intf": {"eth0": {"ip": "10.0.0.1"}}}
TIntf == << Map("", <<2>>), Map("intf", <<3>>), Map("eth0", <<4>>), Str("ip", "10.0.0.1") >>

\* {"a": 1, "b": 2, "c": 3} with its keys in the order ks
TAbc(ks) == << Map("", ks), Num("a", "1"), Num("b", "2"), Num("c", "3") >>

\* {"a": {"b": "x"}}
TNest == << Map("", <<2>>), Map("a", <<3>>), Str("b", "x") >>

\* {}
TEmpty == << Map("", <<>>) >>

\* {"l": [{"k": "v", "m": "w"}, "ab"], "e": []}
TSeq == << Map("", <<2, 7>>), List("l", <<3, 6>>), Map("", <<4, 5>>),
           Str("k", "v"), Str("m", "w"), Str("", "ab"), List("e", <<>>) >>

\* {"d": {"s": "a,b", "t": "a, b"}}
TComma == << Map("", <<2>>), Map("d", <<3, 4>>), Str("s", "a,b"), Str("t", "a, b") >>

-----------------------------------------------------------------------------
(* Characters.  A Python string is spelled as a sequence of one-character   *)
(* strings where the code looks inside it ("key in node" on a str node,     *)
(* str.replace in compound rendering).  Every string of more than one       *)
(* character that the model's trees and tables use is spelled here.         *)

Spell(s) ==
    CASE s = "" -> <<>>
      [] s = "ab" -> <<"a", "b">>
      [] s = "a, b" -> <<"a", ",", " ", "b">>
      [] s = "a,b" -> <<"a", ",", "b">>
      [] s = "10.0.0.1" -> <<"1", "0", ".", "0", ".", "0", ".", "1">>
      [] s = "intf" -> <<"i", "n", "t", "f">>
      [] s = "eth0" -> <<"e", "t", "h", "0">>
      [] s = "ip" -> <<"i", "p">>
      [] OTHER -> <<s>>

RECURSIVE Join(_)
Join(cs) == IF cs = <<>> THEN "" ELSE Head(cs) \o Join(Tail(cs))

\* str.__contains__: sub occurs in s as a contiguous run
IsSubstring(sub, s) ==
    \E i \in 0..Len(s) : i + Len(sub) <= Len(s) /\ SubSeq(s, i + 1, i + Len(sub)) = sub

-----------------------------------------------------------------------------
(* Paths, depth_first_traverse lines 223-235 and on_enter / on_exit          *)

\* the path a frame yields: the root's own path is '' and it is yielded as '/'
YieldPath(path) == IF path = "" THEN "/" ELSE path

\* child_path = path + '/' + key, or path + '/' + LIST_ELEM_LABEL for a list element
ChildPathElementForAll(t, n, path, kid) == path \o "/" \o LIST_ELEM_LABEL

ChildPath(t, n, path, kid) ==
    IF t[n].kind = "map" THEN path \o "/" \o t[kid].key
    ELSE path \o "/" \o LIST_ELEM_LABEL

\* on_enter is handed the yielded path, on_exit the frame's own path
EnterKey(path) == YieldPath(path) \o "/" \o ENTER_LABEL

ExitKey(path) == path \o "/" \o EXIT_LABEL

\* "for key in node" / "for elem in node", lines 229 and 233: the i-th child
NextKidReversed(t, n, i) == t[n].kids[Len(t[n].kids) + 1 - i]

NextKid(t, n, i) == t[n].kids[i]

-----------------------------------------------------------------------------
(* sort_tree, lines 177-186: what the loop body does to one yielded node     *)

NoPriority == [first |-> <<>>, last |-> <<>>]

\* priorities.get(path, {}) with .get('first', []) and .get('last', [])
DefinedPriorities(priorities, path) ==
    IF path \in DOMAIN priorities THEN priorities[path] ELSE NoPriority

\* OrderedDict.move_to_end(key, last) on the kid order of a mapping
MoveToEndNoUnlink(t, order, key, last) ==
    LET kid == CHOOSE k \in Range(order) : t[k].key = key
    IN  IF last THEN Append(order, kid) ELSE <<kid>> \o order

MoveToEndBySwap(t, order, key, last) ==
    LET i == CHOOSE j \in 1..Len(order) : t[order[j]].key = key
        j == IF last THEN i + 1 ELSE i - 1
    IN  IF j \in 1..Len(order)
        THEN [order EXCEPT ![i] = order[j], ![j] = order[i]]
        ELSE order

MoveToEnd(t, order, key, last) ==
    LET kid == CHOOSE k \in Range(order) : t[k].key = key
        rest == SelectSeq(order, LAMBDA k : k # kid)
    IN  IF last THEN Append(rest, kid) ELSE <<kid>> \o rest

\* for key in ks: if key in node: node.move_to_end(key, last)
RECURSIVE MoveKeys(_, _, _, _)
MoveKeys(t, order, ks, last) ==
    IF ks = <<>> THEN order
    ELSE MoveKeys(t,
                  IF \E k \in Range(order) : t[k].key = Head(ks)
                  THEN MoveToEnd(t, order, Head(ks), last)
                  ELSE order,
                  Tail(ks), last)

\* lines 181-186 on a mapping node: first in reverse to the front, last to the end
SortedKidsNoReverse(t, n, first, last) ==
    MoveKeys(t, MoveKeys(t, t[n].kids, first, FALSE), last, TRUE)

SortedKids(t, n, first, last) ==
    MoveKeys(t, MoveKeys(t, t[n].kids, Reverse(first), FALSE), last, TRUE)

\* "key in node" on a node that is no mapping: list membership, str containment
KeyIn(t, n, key) ==
    CASE t[n].kind = "map" -> \E k \in Range(t[n].kids) : t[k].key = key
      [] t[n].kind = "seq" -> \E k \in Range(t[n].kids) : t[k].kind = "str" /\ t[k].val = key
      [] t[n].kind = "str" -> IsSubstring(Spell(key), Spell(t[n].val))
      [] OTHER -> FALSE

\* the exception lines 181-186 raise on a node that is no mapping:
\* "key in node" is a TypeError on a number, and move_to_end an AttributeError
\* on a list or a str that contains the key
SortRaises(t, n, first, last) ==
    LET ks == Reverse(first) \o last
    IN  CASE t[n].kind = "map" -> "none"
          [] t[n].kind = "num" -> IF ks = <<>> THEN "none" ELSE "TypeError"
          [] OTHER -> IF \E i \in 1..Len(ks) : KeyIn(t, n, ks[i])
                      THEN "AttributeError" ELSE "none"

-----------------------------------------------------------------------------
(* Reference resolution: find_origin_node, retrieve_value,                  *)
(* recursive_dictionary_swap.  A reference is its list of segments, as      *)
(* retrieve_values splits it on '/' and drops the empty ones.               *)

Raise(e) == [res |-> e, node |-> 0, compound |-> FALSE]

Value(n, compound) == [res |-> "value", node |-> n, compound |-> compound]

Raised(v) == v.res \notin {"value", "missing"}

\* find_origin_node, lines 255-262; levels_up is the loop's counter
RECURSIVE OriginFrom(_, _, _, _)
OriginFrom(stack, n, target_steps, levels_up) ==
    IF target_steps = <<>>
    THEN [err |-> "IndexError", node |-> 0, steps |-> <<>>]
    ELSE IF Head(target_steps) # DIR_TRAVERSE_UP_LABEL
    THEN [err |-> "none", node |-> n, steps |-> target_steps]
    ELSE IF levels_up + 1 > Len(stack)
    THEN [err |-> "IndexError", node |-> 0, steps |-> <<>>]
    ELSE OriginFrom(stack, stack[Len(stack) - levels_up], Tail(target_steps), levels_up + 1)

find_origin_node(stack, n, target_steps) == OriginFrom(stack, n, target_steps, 0)

\* node[step], line 333: KeyError on a mapping without the key, TypeError on
\* a list, a str or a number (step is a str)
SubscriptNoCheck(t, n, step) ==
    IF t[n].kind = "map" /\ \E k \in Range(t[n].kids) : t[k].key = step
    THEN [err |-> "none", node |-> CHOOSE k \in Range(t[n].kids) : t[k].key = step]
    ELSE [err |-> "none", node |-> n]

Subscript(t, n, step) ==
    IF t[n].kind # "map" THEN [err |-> "TypeError", node |-> 0]
    ELSE IF \E k \in Range(t[n].kids) : t[k].key = step
    THEN [err |-> "none", node |-> CHOOSE k \in Range(t[n].kids) : t[k].key = step]
    ELSE [err |-> "KeyError", node |-> 0]

FirstErr(es) ==
    IF \E i \in 1..Len(es) : es[i] # "none"
    THEN es[CHOOSE i \in 1..Len(es) : es[i] # "none" /\ \A j \in 1..(i - 1) : es[j] = "none"]
    ELSE "none"

\* recursive_dictionary_swap(dict(n)), lines 288-298: the exception it raises.
\* node[key][0] is an IndexError on an empty list; dict(entry) is a ValueError
\* on a non-empty str or list entry and a TypeError on a number.
RECURSIVE SwapErr(_, _)
DictOfErr(t, e) ==
    CASE t[e].kind = "map" -> SwapErr(t, e)
      [] t[e].kind = "num" -> "TypeError"
      [] OTHER -> IF t[e].kids = <<>> /\ t[e].val = "" THEN "none" ELSE "ValueError"

SwapErr(t, n) ==
    FirstErr([i \in 1..Len(t[n].kids) |->
        LET k == t[n].kids[i]
        IN  CASE t[k].kind = "seq" ->
                   IF t[k].kids = <<>> THEN "IndexError"
                   ELSE IF t[t[k].kids[1]].kind = "map"
                   THEN FirstErr([j \in 1..Len(t[k].kids) |-> DictOfErr(t, t[k].kids[j])])
                   ELSE "none"
              [] t[k].kind = "map" -> SwapErr(t, k)
              [] OTHER -> "none"])

\* the DICT_ELEM_LABEL branch up to str(node), lines 317-325
CompoundErr(t, n) ==
    CASE t[n].kind = "seq" ->
           FirstErr([i \in 1..Len(t[n].kids) |->
               IF t[t[n].kids[i]].kind = "map" THEN SwapErr(t, t[n].kids[i]) ELSE "none"])
      [] t[n].kind = "map" -> SwapErr(t, n)
      [] OTHER -> "none"

\* dict(x), lines 294, 297, 321, 325: a new mapping object.  own says that a
\* mapping is the tree's own object; its copy is not.
DictNoCopy(own) == own

DictCopy(own) == FALSE

\* recursive_dictionary_swap, lines 288-297: the children of n whose slot is
\* reassigned (node[key] = ...) in the tree, which happens when the mapping
\* the function is handed is the tree's own object and not a copy
RECURSIVE SwapAssigns(_, _, _)
SwapAssigns(t, n, own) ==
    UNION {LET k == t[n].kids[i]
           IN  CASE t[k].kind = "map" ->
                      (IF own THEN {k} ELSE {}) \cup SwapAssigns(t, k, DictCopy(TRUE))
                 [] t[k].kind = "seq" /\ t[k].kids # <<>> /\ t[t[k].kids[1]].kind = "map" ->
                      (IF own THEN {k} ELSE {})
                      \cup UNION {IF t[e].kind = "map"
                                  THEN SwapAssigns(t, e, DictCopy(TRUE)) ELSE {} :
                                  e \in Range(t[k].kids)}
                 [] OTHER -> {} : i \in 1..Len(t[n].kids)}

\* the DICT_ELEM_LABEL branch, lines 317-325: node = new_list and
\* node = recursive_dictionary_swap(dict(node)) rebind the local name only
CompoundAssigns(t, n) ==
    CASE t[n].kind = "seq" ->
           UNION {IF t[e].kind = "map" THEN SwapAssigns(t, e, DictCopy(TRUE)) ELSE {} :
                  e \in Range(t[n].kids)}
      [] t[n].kind = "map" -> SwapAssigns(t, n, DictCopy(TRUE))
      [] OTHER -> {}

\* the tree once the slots ws hold what recursive_dictionary_swap assigned:
\* a plain dict for an OrderedDict, a new list of plain dicts for a list
Reassigned(t, ws) ==
    [k \in DOMAIN t |->
        IF k \in ws
        THEN [t[k] EXCEPT !.kind = IF @ = "map" THEN "dict" ELSE "list"]
        ELSE t[k]]

\* retrieve_value, lines 308-337
RECURSIVE retrieve_value(_, _, _, _)
retrieve_value(t, stack, n, target_steps) ==
    LET o == find_origin_node(stack, n, target_steps)
    IN  IF o.err # "none" THEN Raise(o.err)
        ELSE LET step == Head(o.steps)
                 rest == Tail(o.steps)
             IN  CASE step = TEXT_LEAF_LABEL -> Value(o.node, FALSE)
                   [] step = DICT_ELEM_LABEL ->
                        IF CompoundErr(t, o.node) = "none"
                        THEN Value(o.node, TRUE)
                        ELSE Raise(CompoundErr(t, o.node))
                   [] OTHER ->
                        LET sub == Subscript(t, o.node, step)
                        IN  IF sub.err # "none" THEN MISSING_VALUE_TEMPLATE
                            ELSE LET v == retrieve_value(t, stack, sub.node, rest)
                                 IN  IF v.res \in {"KeyError", "TypeError"}
                                     THEN MISSING_VALUE_TEMPLATE
                                     ELSE v

-----------------------------------------------------------------------------
(* Rendering a resolved value as text: str(node) of Python 3.5-3.11, on      *)
(* characters.  Multi-character chunks below hold no space and no comma.    *)

RECURSIVE JoinSep(_, _)
JoinSep(parts, sep) ==
    IF parts = <<>> THEN <<>>
    ELSE IF Len(parts) = 1 THEN parts[1]
    ELSE parts[1] \o sep \o JoinSep(Tail(parts), sep)

\* repr of a node that recursive_dictionary_swap left as json.loads built it
RECURSIVE ReprRaw(_, _)
ReprRaw(t, n) ==
    CASE t[n].kind = "str" -> <<"'">> \o Spell(t[n].val) \o <<"'">>
      [] t[n].kind = "num" -> Spell(t[n].val)
      [] t[n].kind = "seq" ->
           <<"[">> \o JoinSep([i \in 1..Len(t[n].kids) |-> ReprRaw(t, t[n].kids[i])],
                              <<",", " ">>) \o <<"]">>
      [] OTHER ->
           <<"OrderedDict([">>
           \o JoinSep([i \in 1..Len(t[n].kids) |->
                          <<"(", "'">> \o Spell(t[t[n].kids[i]].key) \o <<"'", ",", " ">>
                          \o ReprRaw(t, t[n].kids[i]) \o <<")">>],
                      <<",", " ">>)
           \o <<"])">>

\* repr of recursive_dictionary_swap(dict(n)): a plain dict, its list values
\* swapped when their first element is an OrderedDict
RECURSIVE ReprSwapped(_, _)
ReprSwapped(t, n) ==
    <<"{">>
    \o JoinSep([i \in 1..Len(t[n].kids) |->
           LET k == t[n].kids[i]
           IN  <<"'">> \o Spell(t[k].key) \o <<"'", ":", " ">>
               \o (CASE t[k].kind = "map" -> ReprSwapped(t, k)
                     [] t[k].kind = "seq" /\ t[k].kids # <<>> /\ t[t[k].kids[1]].kind = "map" ->
                          <<"[">> \o JoinSep([j \in 1..Len(t[k].kids) |->
                                                 ReprSwapped(t, t[k].kids[j])],
                                             <<",", " ">>) \o <<"]">>
                     [] OTHER -> ReprRaw(t, k))],
               <<",", " ">>)
    \o <<"}">>

\* str(node) at line 329, after lines 317-325
CompoundStr(t, n) ==
    CASE t[n].kind = "map" -> ReprSwapped(t, n)
      [] t[n].kind = "seq" ->
           <<"[">> \o JoinSep([i \in 1..Len(t[n].kids) |->
                                  IF t[t[n].kids[i]].kind = "map"
                                  THEN ReprSwapped(t, t[n].kids[i])
                                  ELSE ReprRaw(t, t[n].kids[i])],
                              <<",", " ">>) \o <<"]">>
      [] OTHER -> Spell(t[n].val)

\* str.replace(", ", "&")
RECURSIVE ReplaceCommaSpace(_)
ReplaceCommaSpace(cs) ==
    IF cs = <<>> THEN <<>>
    ELSE IF Len(cs) >= 2 /\ cs[1] = "," /\ cs[2] = " "
    THEN <<"&">> \o ReplaceCommaSpace(SubSeq(cs, 3, Len(cs)))
    ELSE <<cs[1]>> \o ReplaceCommaSpace(Tail(cs))

\* str.replace(" ", "")
RemoveSpaces(cs) == SelectSeq(cs, LAMBDA c : c # " ")

\* lines 329-330
CompoundChars(t, n) == RemoveSpaces(ReplaceCommaSpace(CompoundStr(t, n)))

\* the text a resolved value contributes to a command
ValueChars(t, v) ==
    IF v.compound THEN CompoundChars(t, v.node)
    ELSE IF IsLeaf(t, v.node) THEN Spell(t[v.node].val)
    ELSE ReprRaw(t, v.node)

-----------------------------------------------------------------------------
(* Commands.  A command template is [text, refs]: its literal text and the  *)
(* references CommandFiller.find_all_path_refs finds in it, each split into *)
(* segments.  CommandFiller itself is vyatta.command, outside parser.py.    *)

Template(text, refs) == [text |-> text, refs |-> refs]

EmptySyntax == [p \in {} |-> <<>>]

Rule(path, cmds) == [p \in {path} |-> cmds]

\* {**a, **b}
MergeKeepFirst(a, b) ==
    [p \in DOMAIN a \cup DOMAIN b |-> IF p \in DOMAIN a THEN a[p] ELSE b[p]]

Merge(a, b) ==
    [p \in DOMAIN a \cup DOMAIN b |-> IF p \in DOMAIN b THEN b[p] ELSE a[p]]

\* retrieve_commands, lines 212-216: '..' becomes DIR_TRAVERSE_UP_LABEL
retrieve_commands(syn, path) ==
    LET commands == IF path \in DOMAIN syn THEN syn[path] ELSE <<>>
    IN  [c \in 1..Len(commands) |->
            [commands[c] EXCEPT !.refs =
                [r \in 1..Len(@) |->
                    [s \in 1..Len(@[r]) |->
                        IF @[r][s] = ".." THEN DIR_TRAVERSE_UP_LABEL ELSE @[r][s]]]]]

\* retrieve_values, lines 273-280: one result per reference, in order
retrieve_values(t, stack, n, refs) ==
    [r \in 1..Len(refs) |-> retrieve_value(t, stack, n, refs[r])]

\* CommandFiller.fill_command: the text and the resolved values, or '' when a
\* reference has no value
fill_command(t, cmd, values) ==
    IF \E r \in 1..Len(values) : values[r].res = "missing" THEN ""
    ELSE cmd.text \o Join(JoinSep([r \in 1..Len(values) |-> <<" ">> \o ValueChars(t, values[r])],
                                  <<>>))

\* _process_commands, lines 191-199, from its second command on
RECURSIVE RunCommands(_, _, _, _, _)
RunCommands(t, stack, n, cmds, out) ==
    IF cmds = <<>> THEN [out |-> out, err |-> "none"]
    ELSE LET values == retrieve_values(t, stack, n, Head(cmds).refs)
             raised == FirstErr([r \in 1..Len(values) |->
                           IF Raised(values[r]) THEN values[r].res ELSE "none"])
             command == fill_command(t, Head(cmds), values)
         IN  IF raised # "none" THEN [out |-> out, err |-> raised]
             ELSE RunCommands(t, stack, n, Tail(cmds),
                              IF command # "" THEN Append(out, command) ELSE out)

process_commands(t, syn, stack, n, path, out) ==
    RunCommands(t, stack, n, retrieve_commands(syn, path), out)

\* the tree after _process_commands(node, path): what resolving the compound
\* references of the path's commands assigned into it
TreeAfterCommands(t, syn, stack, n, path) ==
    LET cmds == retrieve_commands(syn, path)
        refs == UNION {Range(cmds[c].refs) : c \in 1..Len(cmds)}
        resolved == {retrieve_value(t, stack, n, r) : r \in refs}
    IN  Reassigned(t, UNION {IF v.res = "value" /\ v.compound
                             THEN CompoundAssigns(t, v.node) ELSE {} : v \in resolved})

-----------------------------------------------------------------------------
(* Rule files and steps *)

SyntaxFile(name, rules) == [name |-> name, processed |-> FALSE, loads |-> 0, rules |-> rules]

\* discover_syntax's filter, line 111: x.lower().endswith('.json')
IsJsonName(name) == name \in {"f1.json", "f2.json", "F3.JSON"}

FileIndex(files, name) == CHOOSE i \in 1..Len(files) : files[i].name = name

\* Step.execute, lines 65-69
RECURSIVE MergeAllFiles(_, _, _)
MergeAllFiles(files, names, syn) ==
    IF names = <<>> THEN [syntax |-> syn, files |-> files]
    ELSE LET i == FileIndex(files, Head(names))
         IN  MergeAllFiles([files EXCEPT ![i].processed = TRUE, ![i].loads = @ + 1],
                           Tail(names), Merge(syn, files[i].rules))

RECURSIVE MergeNoMark(_, _, _)
MergeNoMark(files, names, syn) ==
    IF names = <<>> THEN [syntax |-> syn, files |-> files]
    ELSE LET i == FileIndex(files, Head(names))
         IN  IF ~files[i].processed
             THEN MergeNoMark([files EXCEPT ![i].loads = @ + 1],
                              Tail(names), Merge(syn, files[i].rules))
             ELSE MergeNoMark(files, Tail(names), syn)

RECURSIVE MergeUnprocessed(_, _, _)
MergeUnprocessed(files, names, syn) ==
    IF names = <<>> THEN [syntax |-> syn, files |-> files]
    ELSE LET i == FileIndex(files, Head(names))
         IN  IF ~files[i].processed
             THEN MergeUnprocessed([files EXCEPT ![i].processed = TRUE, ![i].loads = @ + 1],
                                   Tail(names), Merge(syn, files[i].rules))
             ELSE MergeUnprocessed(files, Tail(names), syn)

\* the SyntaxFile objects a step holds: its list, or for "remaining" the live
\* view self.syntax_files.values(), line 134
Translations(files, step) ==
    IF step.remaining THEN [i \in 1..Len(files) |-> files[i].name] ELSE step.translations

\* parser.output.extend(self._lines), line 60
OutputReplace(out, lines) == lines

OutputExtend(out, lines) == out \o lines

\* self.output.clear(), line 188
OutputNoClear(out) == out

OutputClear(out) == <<>>

\* self.parent_stack.pop(), line 237
StackPopNothing(stack) == stack

StackPop(stack) == Front(stack)

\* output_config, lines 148-149: the lines joined for the writer
ConfigLinesNoSeparator(out) == out

ConfigLines(out) == Append(out, SEPARATOR)

-----------------------------------------------------------------------------
(* Where a node sits: the path its frame carries (helpers of the checks)    *)

Parent(t, n) == CHOOSE m \in Nodes(t) : n \in Range(t[m].kids)

RECURSIVE PathOf(_, _)
PathOf(t, n) == IF n = Root THEN "" ELSE ChildPath(t, Parent(t, n), PathOf(t, Parent(t, n)), n)

RECURSIVE Depth(_, _)
Depth(t, n) == IF n = Root THEN 0 ELSE 1 + Depth(t, Parent(t, n))

\* every rule-mapping key a traversal of t looks up
Hooks(t) == UNION {{EnterKey(PathOf(t, n)), YieldPath(PathOf(t, n)), ExitKey(PathOf(t, n))} :
                   n \in Nodes(t)}

-----------------------------------------------------------------------------
(* The inputs of a run: the files main() reads and the constructor's        *)
(* arguments.  Each family varies one of them over a bounded set.           *)

Input(config, priorities, ctorSyntax, dir, stepsJson, nSorts) ==
    [config |-> config, priorities |-> priorities, ctorSyntax |-> ctorSyntax,
     dir |-> dir, stepsJson |-> stepsJson, nSorts |-> nSorts]

NoPriorities == [p \in {} |-> NoPriority]

Priority(path, first, last) == [p \in {path} |-> [first |-> first, last |-> last]]

StepJson(config, translate) == [config |-> config, remaining |-> FALSE, translate |-> translate]

StepRemaining(config) == [config |-> config, remaining |-> TRUE, translate |-> <<>>]

File(name, rules) == [name |-> name, rules |-> rules]

\* priority tables for the root of {"a", "b", "c"}: "z" names an absent key
RootPriorities ==
    {Priority("/", f, l) : f \in SeqsUpTo({"a", "b", "z"}, MaxPrioLen),
                           l \in SeqsUpTo({"a", "b", "z"}, MaxPrioLen)}

\* priority tables that name the path of a node below the root
InnerPriorities ==
    {Priority(p, f, l) : p \in {"/a", "/l", "/l/@element", "/e"},
                         f \in SeqsUpTo({"a", "m"}, 1), l \in SeqsUpTo({"a", "m"}, 1)}

SortInputs ==
    {Input(TAbc(ks), pr, EmptySyntax, {}, <<>>, MaxSorts) :
        ks \in {<<2, 3, 4>>, <<4, 2, 3>>, <<3, 4, 2>>}, pr \in RootPriorities}
    \cup {Input(c, pr, EmptySyntax, {}, <<>>, MaxSorts) :
        c \in {TAbc(<<2, 3, 4>>), TNest, TSeq}, pr \in InnerPriorities}

\* a parser constructed with a rule mapping, sorted before any step runs
CtorInputs ==
    {Input(TNest, Priority("/", <<"a">>, <<>>),
           Rule(h, <<Template("ctor", <<r>>)>>), {}, <<>>, 1) :
        h \in {"/a/@exit", "/a/b/@exit", "/@exit", "/a/b"},
        r \in {<<"@text">>, <<"..", "@text">>, <<"..", "..", "..", "@text">>}}

RefSegments == {"..", "a", "b", TEXT_LEAF_LABEL, DICT_ELEM_LABEL}

References == SeqsUpTo(RefSegments, MaxRefLen)

SeqReferences ==
    {<<DICT_ELEM_LABEL>>, <<"l", DICT_ELEM_LABEL>>, <<"e", DICT_ELEM_LABEL>>,
     <<"l", "k", TEXT_LEAF_LABEL>>, <<"k", TEXT_LEAF_LABEL>>, <<"..", "k", TEXT_LEAF_LABEL>>,
     <<"..", DICT_ELEM_LABEL>>, <<TEXT_LEAF_LABEL>>}

\* one rule file holding one template with one reference, at one hook
ResolveInputs ==
    {Input(TNest, NoPriorities, EmptySyntax,
           {File("f1.json", Rule(h, <<Template("cmd", <<r>>)>>))},
           <<StepRemaining(<<>>)>>, 1) :
        h \in Hooks(TNest), r \in References}
    \cup {Input(TSeq, NoPriorities, EmptySyntax,
           {File("f1.json", Rule(h, <<Template("cmd", <<r>>)>>))},
           <<StepRemaining(<<>>)>>, 1) :
        h \in Hooks(TSeq), r \in SeqReferences}
    \cup {Input(TComma, NoPriorities, EmptySyntax,
           {File("f1.json", Rule(h, <<Template("cmd", <<r>>)>>))},
           <<StepRemaining(<<>>)>>, 1) :
        h \in Hooks(TComma), r \in {<<DICT_ELEM_LABEL>>, <<"d", DICT_ELEM_LABEL>>}}

\* rule files whose templates name their file; both define "/a/@enter"
Rules1 ==
    Merge(Rule("/a/@enter", <<Template("f1 a", <<>>)>>),
          Rule("/a/b", <<Template("f1 b", <<<<TEXT_LEAF_LABEL>>>>)>>))

Rules2 ==
    Merge(Rule("/a/@enter", <<Template("f2 a", <<>>)>>),
          Rule("/@exit", <<Template("f2 end", <<<<"a", "b", TEXT_LEAF_LABEL>>>>),
                           Template("f2 none", <<<<"a", "c", TEXT_LEAF_LABEL>>>>)>>))

Dirs ==
    { {File("f1.json", Rules1), File("f2.json", Rules2)},
      {File("f1.json", Rules1), File("README", EmptySyntax)},
      {File("f1.json", EmptySyntax)},
      {} }

StepChoices ==
    {StepJson(<<>>, <<>>), StepJson(<<"hostname r1">>, <<>>),
     StepJson(<<"log s1">>, <<"f1.json">>), StepJson(<<>>, <<"f2.json", "f1.json">>),
     StepJson(<<>>, <<"f1.json", "f2.json", "f1.json">>),
     StepRemaining(<<>>), StepRemaining(<<"line vty">>)}

PipelineInputs ==
    {Input(c, NoPriorities, EmptySyntax, d, sj, 1) :
        c \in {TNest, TEmpty}, d \in Dirs, sj \in SeqsUpTo(StepChoices, MaxSteps)}

\* the interface scenario: the rule at the element path, and at the key path
IntfRule(path) == Rule(path, <<Template("set address", <<<<TEXT_LEAF_LABEL>>>>)>>)

IntfInput(path) ==
    Input(TIntf, NoPriorities, EmptySyntax, {File("f1.json", IntfRule(path))},
          <<StepJson(<<>>, <<"f1.json">>)>>, 1)

ScenarioInputs == {IntfInput("/intf/@element/ip/@enter"), IntfInput("/intf/eth0/ip/@enter")}

\* a rule file with one reference-free template at every key a traversal of
\* the tree looks up, the template's text being the key
AllHookRules(t) == [h \in Hooks(t) |-> <<Template(h, <<>>)>>]

HookInput(t, priorities) ==
    Input(t, priorities, EmptySyntax, {File("f1.json", AllHookRules(t))},
          <<StepJson(<<>>, <<"f1.json">>)>>, 1)

HookInputs ==
    {HookInput(TNest, NoPriorities), HookInput(TSeq, NoPriorities),
     HookInput(TAbc(<<2, 3, 4>>), Priority("/", <<"c">>, <<"a">>))}

\* root-level templates registered under the one prefix "/"
RootHookRules ==
    Merge(Rule("/" \o ENTER_LABEL, <<Template("begin", <<>>)>>),
          Rule("/" \o EXIT_LABEL, <<Template("end", <<>>)>>))

RootHookInput ==
    Input(TNest, NoPriorities, EmptySyntax, {File("f1.json", RootHookRules)},
          <<StepJson(<<>>, <<"f1.json">>)>>, 1)

Inputs ==
    SortInputs \cup CtorInputs \cup ResolveInputs \cup PipelineInputs \cup ScenarioInputs
    \cup HookInputs \cup {RootHookInput}

-----------------------------------------------------------------------------
(* The run: main(), lines 355-361 *)

RootFrame == [node |-> Root, path |-> "", i |-> 0]

Top == frames[Len(frames)]

\* what a frame yields, lines 223-226: the node and its path
Yielded(f) == [node |-> f.node, path |-> YieldPath(f.path)]

\* VyattaJSONParser(...) and read_vyatta_config
Init ==
    /\ input \in Inputs
    /\ tree = input.config
    /\ syntax = input.ctorSyntax
    /\ syntax_files = <<>>
    /\ steps = <<>>
    /\ parent_stack = <<>>
    /\ output = <<>>
    /\ frames = <<>>
    /\ pc = "start"
    /\ stepIdx = 0
    /\ sortCount = 0
    /\ err = "none"
    /\ written = <<>>
    /\ yields = <<>>

Crash(e) == pc' = "crashed" /\ err' = e

\* prioritize: sort_tree starts its traversal
Prioritize ==
    /\ pc \in {"start", "sorted"}
    /\ sortCount < input.nSorts
    /\ pc' = "sort"
    /\ frames' = <<RootFrame>>
    /\ yields' = <<>>
    /\ UNCHANGED <<input, tree, syntax, syntax_files, steps, parent_stack, output,
                   stepIdx, sortCount, err, written>>

\* sort_tree's loop body on the node the generator yields, then the generator
\* resumes and pushes the node (line 227)
SortVisit ==
    /\ pc = "sort"
    /\ Top.i = 0
    /\ LET n == Top.node
           p == DefinedPriorities(input.priorities, YieldPath(Top.path))
           e == SortRaises(tree, n, p.first, p.last)
       IN  IF e # "none"
           THEN /\ Crash(e)
                /\ UNCHANGED <<tree, parent_stack, frames>>
           ELSE /\ tree' = IF tree[n].kind = "map"
                           THEN [tree EXCEPT ![n].kids = SortedKids(tree, n, p.first, p.last)]
                           ELSE tree
                /\ parent_stack' = Append(parent_stack, n)
                /\ frames' = [frames EXCEPT ![Len(frames)].i = 1]
                /\ UNCHANGED <<pc, err>>
    /\ yields' = Append(yields, Yielded(Top))
    /\ UNCHANGED <<input, syntax, syntax_files, steps, output, stepIdx, sortCount, written>>

\* parse_config's loop body on the node the generator yields: on_enter, then
\* _process_commands(node, path); then the generator resumes and pushes the node
ParseVisit ==
    /\ pc = "parse"
    /\ Top.i = 0
    /\ LET n == Top.node
           entered == process_commands(tree, syntax, parent_stack, n, EnterKey(Top.path), output)
           visited == process_commands(tree, syntax, parent_stack, n, YieldPath(Top.path),
                                       entered.out)
       IN  IF entered.err # "none"
           THEN /\ Crash(entered.err)
                /\ output' = entered.out
                /\ UNCHANGED <<parent_stack, frames>>
           ELSE IF visited.err # "none"
           THEN /\ Crash(visited.err)
                /\ output' = visited.out
                /\ UNCHANGED <<parent_stack, frames>>
           ELSE /\ output' = visited.out
                /\ parent_stack' = Append(parent_stack, n)
                /\ frames' = [frames EXCEPT ![Len(frames)].i = 1]
                /\ UNCHANGED <<pc, err>>
    /\ tree' = TreeAfterCommands(
                   TreeAfterCommands(tree, syntax, parent_stack, Top.node, EnterKey(Top.path)),
                   syntax, parent_stack, Top.node, YieldPath(Top.path))
    /\ yields' = Append(yields, Yielded(Top))
    /\ UNCHANGED <<input, syntax, syntax_files, steps, stepIdx, sortCount, written>>

\* depth_first_traverse, lines 228-235: the next child of a mapping or a list
Descend ==
    /\ pc \in {"sort", "parse"}
    /\ Top.i \in 1..Len(tree[Top.node].kids)
    /\ LET kid == NextKid(tree, Top.node, Top.i)
       IN  frames' = Append([frames EXCEPT ![Len(frames)].i = @ + 1],
                            [node |-> kid, path |-> ChildPath(tree, Top.node, Top.path, kid),
                             i |-> 0])
    /\ UNCHANGED <<input, tree, syntax, syntax_files, steps, parent_stack, output, pc,
                   stepIdx, sortCount, err, written, yields>>

\* depth_first_traverse, lines 236-237: on_exit and pop; when the root's frame
\* ends, the caller's loop ends: sort_tree clears the output (line 188),
\* Step.execute returns to execute_steps
ExitNode ==
    /\ pc \in {"sort", "parse"}
    /\ Top.i > Len(tree[Top.node].kids)
    /\ LET exited == process_commands(tree, syntax, parent_stack, Top.node, ExitKey(Top.path),
                                      output)
       IN  IF exited.err # "none"
           THEN /\ Crash(exited.err)
                /\ output' = exited.out
                /\ UNCHANGED <<parent_stack, frames, stepIdx, sortCount>>
           ELSE /\ parent_stack' = StackPop(parent_stack)
                /\ frames' = Front(frames)
                /\ err' = err
                /\ IF Len(frames) > 1
                   THEN /\ output' = exited.out
                        /\ UNCHANGED <<pc, stepIdx, sortCount>>
                   ELSE IF pc = "sort"
                   THEN /\ output' = OutputClear(exited.out)
                        /\ pc' = "sorted"
                        /\ sortCount' = sortCount + 1
                        /\ stepIdx' = stepIdx
                   ELSE /\ output' = exited.out
                        /\ pc' = "steps"
                        /\ stepIdx' = stepIdx + 1
                        /\ sortCount' = sortCount
    /\ tree' = TreeAfterCommands(tree, syntax, parent_stack, Top.node, ExitKey(Top.path))
    /\ UNCHANGED <<input, syntax, syntax_files, steps, written, yields>>

\* discover_syntax: the .json files of the commands directory, in listdir's order
DiscoverSyntax ==
    /\ pc = "sorted"
    /\ sortCount >= input.nSorts
    /\ \E order \in Perms({f \in input.dir : IsJsonName(f.name)}) :
           syntax_files' = [i \in 1..Len(order) |-> SyntaxFile(order[i].name, order[i].rules)]
    /\ pc' = "discovered"
    /\ UNCHANGED <<input, tree, syntax, steps, parent_stack, output, frames,
                   stepIdx, sortCount, err, written, yields>>

\* load_steps, lines 127-137: self.syntax_files[f] is a KeyError for an
\* undiscovered name
LoadSteps ==
    /\ pc = "discovered"
    /\ LET known == {syntax_files[i].name : i \in 1..Len(syntax_files)}
           sj == input.stepsJson
       IN  IF \E s \in 1..Len(sj) : ~sj[s].remaining /\ ~(Range(sj[s].translate) \subseteq known)
           THEN /\ Crash("KeyError")
                /\ UNCHANGED <<steps, stepIdx>>
           ELSE /\ steps' = [s \in 1..Len(sj) |->
                                [lines |-> sj[s].config, remaining |-> sj[s].remaining,
                                 translations |-> sj[s].translate]]
                /\ stepIdx' = 1
                /\ pc' = "steps"
                /\ err' = err
    /\ UNCHANGED <<input, tree, syntax, syntax_files, parent_stack, output, frames,
                   sortCount, written, yields>>

\* one iteration of execute_steps (lines 141-143) up to the start of the
\* traversal: Step.execute, lines 60-72
ExecuteStep ==
    /\ pc = "steps"
    /\ stepIdx <= Len(steps)
    /\ parent_stack' = <<>>
    /\ yields' = <<>>
    /\ output' = OutputExtend(output, steps[stepIdx].lines)
    /\ LET translations == Translations(syntax_files, steps[stepIdx])
           merged == MergeUnprocessed(syntax_files, translations, EmptySyntax)
       IN  IF translations = <<>>
           THEN /\ syntax' = EmptySyntax
                /\ stepIdx' = stepIdx + 1
                /\ UNCHANGED <<syntax_files, frames, pc>>
           ELSE /\ syntax' = merged.syntax
                /\ syntax_files' = merged.files
                /\ frames' = <<RootFrame>>
                /\ pc' = "parse"
                /\ stepIdx' = stepIdx
    /\ UNCHANGED <<input, tree, steps, sortCount, err, written>>

\* output_config, lines 148-158
OutputConfig ==
    /\ pc = "steps"
    /\ stepIdx > Len(steps)
    /\ output' = ConfigLines(output)
    /\ written' = output'
    /\ pc' = "done"
    /\ UNCHANGED <<input, tree, syntax, syntax_files, steps, parent_stack, frames,
                   stepIdx, sortCount, err, yields>>

\* SyntaxFile.load(), lines 83-85, called on a discovered entry by a holder
\* of the parser once main's pipeline is through: every call opens the file
\* and parses it
Load ==
    /\ pc = "done"
    /\ \E i \in 1..Len(syntax_files) :
           /\ syntax_files[i].loads < MaxLoads
           /\ syntax_files' = [syntax_files EXCEPT ![i].loads = @ + 1]
    /\ UNCHANGED <<input, tree, syntax, steps, parent_stack, output, frames, pc,
                   stepIdx, sortCount, err, written, yields>>

Next ==
    \/ Prioritize
    \/ SortVisit
    \/ ParseVisit
    \/ Descend
    \/ ExitNode
    \/ DiscoverSyntax
    \/ LoadSteps
    \/ ExecuteStep
    \/ OutputConfig
    \/ Load

Spec == Init /\ [][Next]_vars

-----------------------------------------------------------------------------
(* Helpers of the checks *)

TemplatesOf(rules) == UNION {Range(rules[p]) : p \in DOMAIN rules}

FileNames == [i \in 1..Len(syntax_files) |-> syntax_files[i].name]

AllProcessed(files) == \A i \in 1..Len(files) : files[i].processed

AtStep == pc = "steps" /\ stepIdx <= Len(steps)

\* the rule-mapping keys whose commands the next action of the traversal processes
HooksNow ==
    IF pc \notin {"sort", "parse"} \/ frames = <<>> THEN {}
    ELSE IF Top.i = 0
    THEN (IF pc = "parse" THEN {EnterKey(Top.path), YieldPath(Top.path)} ELSE {})
    ELSE IF Top.i > Len(tree[Top.node].kids) THEN {ExitKey(Top.path)}
    ELSE {}

\* the references those commands hold
RefsNow ==
    UNION {UNION {Range(retrieve_commands(syntax, h)[c].refs) :
                  c \in 1..Len(retrieve_commands(syntax, h))} : h \in HooksNow}

\* the number of ancestor-escape markers a reference starts with
LeadingUps(ref) ==
    CHOOSE k \in 0..Len(ref) :
        /\ \A i \in 1..k : ref[i] = DIR_TRAVERSE_UP_LABEL
        /\ (k < Len(ref) => ref[k + 1] # DIR_TRAVERSE_UP_LABEL)

\* the node a descent by mapping keys reaches from n, 0 when it reaches none
RECURSIVE Reach(_, _, _)
Reach(t, n, ks) ==
    IF ks = <<>> THEN n
    ELSE IF t[n].kind = "map" /\ Head(ks) \in Range(Keys(t, n))
    THEN Reach(t, CHOOSE k \in Range(t[n].kids) : t[k].key = Head(ks), Tail(ks))
    ELSE 0

-----------------------------------------------------------------------------
(* C1: a rule file's templates are merged into the active rule mapping of   *)
(* at most one step: a set processed flag stays set, and whenever the       *)
(* active mapping is rebuilt it holds no template of a file that was        *)
(* already processed, and every file whose templates it holds is processed *)
(* from then on.                                                           *)
C1_FileConsumedOnce ==
    [][ /\ \A i \in 1..Len(syntax_files) :
             syntax_files[i].processed =>
               /\ Len(syntax_files') = Len(syntax_files)
               /\ syntax_files'[i].name = syntax_files[i].name
               /\ syntax_files'[i].processed
               /\ (syntax' # syntax =>
                     TemplatesOf(syntax_files[i].rules) \cap TemplatesOf(syntax') = {})
        /\ (syntax' # syntax =>
              \A i \in 1..Len(syntax_files') :
                  TemplatesOf(syntax_files'[i].rules) \cap TemplatesOf(syntax') # {}
                      => syntax_files'[i].processed)
      ]_vars

\* a later step names a file an earlier step consumed, and traverses without its templates
C1_Witness ==
    /\ pc = "parse"
    /\ stepIdx = 2
    /\ \E i \in 1..Len(syntax_files) :
          /\ syntax_files[i].name \in Range(steps[1].translations)
          /\ syntax_files[i].name \in Range(steps[2].translations)
          /\ TemplatesOf(syntax_files[i].rules) # {}
          /\ TemplatesOf(syntax_files[i].rules) \cap TemplatesOf(syntax) = {}
    /\ syntax # EmptySyntax

(* C2: priority sorting is idempotent: once sort_tree has run with a table, *)
(* running it again with the same table changes the key order of no        *)
(* mapping node, whatever the table's first and last lists hold.           *)
C2_SortIdempotent == [][ (pc = "sort" /\ sortCount >= 1) => tree' = tree ]_vars

\* a second sort has finished after a first one that reordered the root with
\* overlapping first and last lists
C2_Witness ==
    /\ pc = "sorted"
    /\ sortCount >= 2
    /\ tree # input.config
    /\ \E p \in DOMAIN input.priorities :
          Range(input.priorities[p].first) \cap Range(input.priorities[p].last)
              \cap Range(Keys(tree, Root)) # {}

(* C3: a reference that starts with more ancestor-escape markers than      *)
(* AncestorStack holds entries when its command is processed resolves to   *)
(* "no value": it raises nothing and the walk goes on.  Stated for the     *)
(* references that end with a terminal marker, in a step's traversal.      *)
C3_EscapeBeyondDepthIsNoValue ==
    pc = "parse" =>
        \A ref \in RefsNow :
            (LeadingUps(ref) > Len(parent_stack)
             /\ Last(ref) \in {TEXT_LEAF_LABEL, DICT_ELEM_LABEL}) =>
                retrieve_value(tree, parent_stack, Top.node, ref) = MISSING_VALUE_TEMPLATE

(* C4: a reference of mapping-key segments followed by the leaf marker,     *)
(* resolved from the node a step's traversal has just reached, yields      *)
(* exactly the node the keys lead to when every key exists, and "no        *)
(* value", without raising, when a key is missing or a segment indexes a   *)
(* scalar or a sequence.                                                   *)
KeySegments == {"a", "b", "c", "l", "k"}

C4_KeyDescent ==
    (pc = "parse" /\ Top.i = 0) =>
        \A ks \in SeqsUpTo(KeySegments, MaxRefLen - 1) :
            retrieve_value(tree, parent_stack, Top.node, ks \o <<TEXT_LEAF_LABEL>>)
                = IF Reach(tree, Top.node, ks) # 0
                  THEN Value(Reach(tree, Top.node, ks), FALSE)
                  ELSE MISSING_VALUE_TEMPLATE

\* on {"a": {"b": "x"}} the root's exit hook emitted a/b/leaf as "x" and
\* emitted nothing for a/c/leaf
C4_Witness ==
    /\ pc = "done"
    /\ input.config = TNest
    /\ \E i \in 1..Len(syntax_files) : syntax_files[i].rules = Rules2
    /\ "f2 end x" \in Range(written)
    /\ \A i \in 1..Len(written) : written[i] \notin {"f2 none", "f2 none x"}

(* C5: resolving a reference never aborts the walk: whatever its segments   *)
(* (no terminal marker after the last key, escape markers only, ...),      *)
(* every reference of a command about to be processed resolves to a value  *)
(* or to "no value", and no step's traversal ends with the exception of a  *)
(* resolution.  Stated for the references of at least one segment whose    *)
(* escape markers stay within AncestorStack; the others are C3's.          *)
C5_ResolutionNeverAborts ==
    /\ pc = "parse" =>
          \A ref \in RefsNow :
              (ref # <<>> /\ LeadingUps(ref) <= Len(parent_stack)) =>
                  ~Raised(retrieve_value(tree, parent_stack, Top.node, ref))
    /\ (pc = "crashed" /\ stepIdx >= 1 /\ frames # <<>>
          /\ \A ref \in RefsNow : ref # <<>> /\ LeadingUps(ref) <= Len(parent_stack))
         => err \notin {"IndexError", "ValueError", "TypeError"}

(* C6, as the spec states it: on {"intf": {"eth0": {"ip": "10.0.0.1"}}}     *)
(* with one step whose rule maps /intf/@element/ip/@enter to "set address  *)
(* <leaf of the current node>", the finalised output is the two lines      *)
(* "set address 10.0.0.1" and "!".                                         *)
C6_ElementPathScenario ==
    (pc = "done" /\ input = IntfInput("/intf/@element/ip/@enter"))
        => written = <<"set address 10.0.0.1", SEPARATOR>>

(* C6, amended: in that scenario the finalised output is the separator     *)
(* line "!" alone: eth0 is a mapping key, the path of its ip child is      *)
(* /intf/eth0/ip, and the rule at /intf/@element/ip/@enter matches no node. *)
(* With the rule at /intf/eth0/ip/@enter the output is the two lines       *)
(* "set address 10.0.0.1" and "!".                                         *)
C6_KeyPathScenario ==
    /\ (pc = "done" /\ input = IntfInput("/intf/@element/ip/@enter"))
          => written = <<SEPARATOR>>
    /\ (pc = "done" /\ input = IntfInput("/intf/eth0/ip/@enter"))
          => written = <<"set address 10.0.0.1", SEPARATOR>>

\* both scenarios run to the end (one state each); this is the element-path one
C6_Witness ==
    /\ pc = "done"
    /\ input = IntfInput("/intf/@element/ip/@enter")
    /\ AllProcessed(syntax_files)
    /\ Len(syntax_files) = 1
    /\ written = <<SEPARATOR>>

(* C7: after sort_tree, a mapping node whose path has a priority entry with *)
(* duplicate-free, disjoint first and last lists has its keys in the       *)
(* order: the present keys of first as listed, the keys named in neither   *)
(* list in their original relative order, the present keys of last as      *)
(* listed; a mapping node whose path the table lacks keeps its order.      *)
C7_PriorityOrder ==
    (sortCount >= 1 /\ pc # "sort") =>
        \A n \in Nodes(tree) :
            tree[n].kind = "map" =>
                LET path == YieldPath(PathOf(tree, n))
                    was == Keys(input.config, n)
                    p == DefinedPriorities(input.priorities, path)
                    present(l) == SelectSeq(l, LAMBDA k : k \in Range(was))
                    others == SelectSeq(was,
                                  LAMBDA k : k \notin Range(p.first) \cup Range(p.last))
                IN  IF path \notin DOMAIN input.priorities
                    THEN Keys(tree, n) = was
                    ELSE (NoDup(p.first) /\ NoDup(p.last)
                          /\ Range(p.first) \cap Range(p.last) = {})
                         => Keys(tree, n) = present(p.first) \o others \o present(p.last)

\* the spec's example: first [b], last [a] on {a, b, c} gives b, c, a
C7_Witness ==
    /\ pc = "sorted"
    /\ input.config = TAbc(<<2, 3, 4>>)
    /\ input.priorities = Priority("/", <<"b">>, <<"a">>)
    /\ Keys(tree, Root) = <<"b", "c", "a">>

(* C8: the line sequence handed to the writer is never empty and ends with *)
(* the separator "!"; when no step has a static line and no rule file has  *)
(* a template, it is exactly ["!"].                                        *)
C8_EndsWithSeparator ==
    pc = "done" =>
        /\ written # <<>>
        /\ Last(written) = SEPARATOR
        /\ ((/\ \A s \in 1..Len(input.stepsJson) : input.stepsJson[s].config = <<>>
             /\ \A f \in input.dir : TemplatesOf(f.rules) = {})
            => written = <<SEPARATOR>>)

\* the empty tree, steps run, nothing produced
C8_Witness ==
    /\ pc = "done"
    /\ input.config = TEmpty
    /\ Len(steps) >= 1
    /\ written = <<SEPARATOR>>

(* C9: each step appends its static lines to Output and then the lines of   *)
(* its traversal, steps running in declared order; a step with no rule-set *)
(* entries appends its static lines and starts no traversal; during        *)
(* execute_steps Output only grows.                                        *)
C9_OutputConcatenation ==
    [][ /\ AtStep =>
             /\ output' = output \o input.stepsJson[stepIdx].config
             /\ IF Translations(syntax_files, steps[stepIdx]) = <<>>
                THEN pc' = "steps" /\ stepIdx' = stepIdx + 1 /\ frames' = <<>>
                ELSE pc' = "parse" /\ stepIdx' = stepIdx /\ frames' = <<RootFrame>>
        /\ pc = "parse" =>
             /\ IsPrefix(output, output')
             /\ \/ pc' \in {"parse", "crashed"} /\ stepIdx' = stepIdx
                \/ pc' = "steps" /\ stepIdx' = stepIdx + 1 /\ frames' = <<>>
      ]_vars

\* two steps, each with a static line and commands of its own
C9_Witness ==
    /\ pc = "done"
    /\ written = <<"log s1", "f1 a", "f1 b x", "line vty", "f2 a", "f2 end x", SEPARATOR>>

(* C10: a "remaining" step binds when it executes: its active rule mapping  *)
(* is the merge, in discovery order, of exactly the discovered files no    *)
(* earlier step consumed, and it leaves every discovered file consumed; a  *)
(* later step that names rule files traverses with an empty mapping and    *)
(* emits no command.                                                       *)
UnprocessedRules ==
    LET left == SelectSeq(syntax_files, LAMBDA f : ~f.processed)
    IN  [p \in UNION {DOMAIN left[i].rules : i \in 1..Len(left)} |->
            left[CHOOSE i \in 1..Len(left) :
                    /\ p \in DOMAIN left[i].rules
                    /\ \A j \in (i + 1)..Len(left) : p \notin DOMAIN left[j].rules].rules[p]]

AfterRemaining == \E j \in 1..(stepIdx - 1) : j <= Len(steps) /\ steps[j].remaining

C10_RemainingBindsAtExecution ==
    [][ /\ (AtStep /\ steps[stepIdx].remaining) =>
             /\ syntax' = UnprocessedRules
             /\ AllProcessed(syntax_files')
        /\ (AtStep /\ AfterRemaining) =>
             /\ syntax' = EmptySyntax
             /\ output' = output \o steps[stepIdx].lines
        /\ (pc = "parse" /\ AfterRemaining) =>
             /\ syntax = EmptySyntax
             /\ output' = output
      ]_vars

\* an explicit step after a "remaining" one that consumed two files
C10_Witness ==
    /\ pc = "parse"
    /\ stepIdx = 2
    /\ steps[1].remaining
    /\ steps[2].translations # <<>>
    /\ Len(syntax_files) = 2
    /\ syntax = EmptySyntax
    /\ Top.i > 0

(* C11: compound rendering of a mapping or sequence node reached by a       *)
(* reference that ends with the compound marker raises nothing and yields  *)
(* one token that holds no space and no comma, whatever the node holds     *)
(* (nested mappings and sequences, empty sequences, scalar strings with    *)
(* commas or spaces).  Stated for the references of the commands a step's  *)
(* traversal is about to process whose escape markers stay within          *)
(* AncestorStack.                                                          *)
CompoundTarget(ref) ==
    retrieve_value(tree, parent_stack, Top.node, Front(ref) \o <<TEXT_LEAF_LABEL>>)

C11_CompoundToken ==
    pc = "parse" =>
        \A ref \in RefsNow :
            (/\ ref # <<>>
             /\ Last(ref) = DICT_ELEM_LABEL
             /\ \A i \in 1..(Len(ref) - 1) : ref[i] \notin {TEXT_LEAF_LABEL, DICT_ELEM_LABEL}
             /\ LeadingUps(ref) <= Len(parent_stack)
             /\ CompoundTarget(ref).res = "value"
             /\ tree[CompoundTarget(ref).node].kind \in {"map", "seq"}) =>
                /\ retrieve_value(tree, parent_stack, Top.node, ref)
                       = Value(CompoundTarget(ref).node, TRUE)
                /\ Range(CompoundChars(tree, CompoundTarget(ref).node)) \cap {" ", ","} = {}

(* C12: while the templates registered at a node's enter hook are resolved  *)
(* in a step's traversal, the node is already on AncestorStack: the top of *)
(* the stack is the node and the stack's length is the node's depth plus   *)
(* one, exactly as while its exit-hook templates are resolved.             *)
C12_PushedBeforeEnterHook ==
    (pc = "parse" /\ frames # <<>>) =>
        /\ (Top.i = 0 /\ EnterKey(Top.path) \in DOMAIN syntax) =>
              /\ Len(parent_stack) = Depth(tree, Top.node) + 1
              /\ Last(parent_stack) = Top.node
        /\ (Top.i > Len(tree[Top.node].kids) /\ ExitKey(Top.path) \in DOMAIN syntax) =>
              /\ Len(parent_stack) = Depth(tree, Top.node) + 1
              /\ Last(parent_stack) = Top.node

(* C13: AncestorStack is balanced.  At every point of the sort pass and of  *)
(* every step's traversal it holds, from the root down, exactly the nodes  *)
(* of the open frames that have pushed their node (every open frame but    *)
(* the one whose node has just been yielded and whose enter hook has not   *)
(* yet run), with nothing left of the sort pass or of an earlier step; it  *)
(* is empty between traversals: before and after the sort pass, when a     *)
(* step starts and when its traversal has ended.                           *)
PushedFrames == SelectSeq(frames, LAMBDA f : f.i >= 1)

RECURSIVE Flatten(_)
Flatten(ss) == IF ss = <<>> THEN <<>> ELSE Head(ss) \o Flatten(Tail(ss))

RECURSIVE HookWalk(_, _, _, _)
HookWalk(t, n, path, plain) ==
    <<EnterKey(path)>>
    \o (IF plain THEN <<YieldPath(path)>> ELSE <<>>)
    \o Flatten([i \in 1..Len(t[n].kids) |->
                  HookWalk(t, t[n].kids[i], ChildPath(t, n, path, t[n].kids[i]), plain)])
    \o <<ExitKey(path)>>

(* C14, as the spec states it: in an emission traversal the lines of a      *)
(* node's enter hook come before every line of its descendants, the lines  *)
(* of its exit hook after them and before its next sibling's, children in  *)
(* the current key order or sequence order, and the enter and exit hooks   *)
(* are the only positions that emit.  With a template at every key the     *)
(* traversal looks up, the output is the enter/exit walk of the tree.      *)
C14_EnterExitOnly ==
    (pc = "done" /\ input \in HookInputs) =>
        written = ConfigLines(HookWalk(tree, Root, "", FALSE))

(* C14, amended: a node has three emission positions: its enter hook, then  *)
(* its plain path (both before every line of its descendants), and its     *)
(* exit hook (after every line of its descendants and before any line of   *)
(* its next sibling); children are handled in the current key order or     *)
(* sequence order.                                                         *)
C14_EnterPlainExit ==
    (pc = "done" /\ input \in HookInputs) =>
        written = ConfigLines(HookWalk(tree, Root, "", TRUE))

\* the sorted mapping {c, b, a} was walked with a template at every key
C14_Witness ==
    /\ pc = "done"
    /\ input \in HookInputs
    /\ Keys(tree, Root) = <<"c", "b", "a">>
    /\ Len(written) = 13
    /\ written[3] = "/c/@enter"
    /\ written[4] = "/c"

(* C15: the sort pass visits every node exactly once although it reorders   *)
(* a mapping's keys in place during the walk.  While it runs, the nodes    *)
(* yielded so far are, without repetition, a prefix of the pre-order walk  *)
(* of the tree as it is now ordered, each with the path of its own         *)
(* position; when sort_tree returns they are that whole walk, one entry    *)
(* per node of the tree.                                                   *)
RECURSIVE PreOrder(_, _, _)
PreOrder(t, n, path) ==
    <<[node |-> n, path |-> YieldPath(path)]>>
    \o Flatten([i \in 1..Len(t[n].kids) |->
                  PreOrder(t, t[n].kids[i], ChildPath(t, n, path, t[n].kids[i]))])

InSortPass == pc \in {"sort", "sorted"} \/ (pc = "crashed" /\ sortCount < input.nSorts)

C15_SortVisitsOnce ==
    InSortPass =>
        /\ NoDup(yields)
        /\ \A k \in 1..Len(yields) :
               yields[k].path = YieldPath(PathOf(tree, yields[k].node))
        /\ IsPrefix(yields, PreOrder(tree, Root, ""))
        /\ pc = "sorted" =>
              /\ {yields[k].node : k \in 1..Len(yields)} = Nodes(tree)
              /\ Len(yields) = Len(tree)

\* a sort pass has returned after it moved the last key of the root to the
\* front and another key to the end
C15_Witness ==
    /\ pc = "sorted"
    /\ sortCount = 1
    /\ input.config = TAbc(<<2, 3, 4>>)
    /\ Keys(tree, Root) = <<"b", "c", "a">>
    /\ Len(yields) = 4
    /\ yields[2].path = "/b"

(* C16: translation never changes the tree.  From the first step on        *)
(* (execute_steps, every traversal of a step, reference resolution and     *)
(* compound rendering included) the tree stays as it is: same nodes, keys, *)
(* key order, values and node types.  The only steps of a run that change  *)
(* the tree are sort_tree's visits of a mapping node, and they change      *)
(* nothing but the order of that node's keys.                              *)
C16_TranslationKeepsTree ==
    [][ /\ pc \in {"steps", "parse"} => tree' = tree
        /\ tree' # tree =>
              /\ pc = "sort"
              /\ Top.i = 0
              /\ tree[Top.node].kind = "map"
              /\ \A n \in Nodes(tree) \ {Top.node} : tree'[n] = tree[n]
              /\ tree' = [tree EXCEPT ![Top.node].kids = tree'[Top.node].kids]
              /\ Len(tree'[Top.node].kids) = Len(tree[Top.node].kids)
              /\ Range(tree'[Top.node].kids) = Range(tree[Top.node].kids)
      ]_vars

\* a step has emitted the compound rendering of a list that holds a mapping
C16_Witness ==
    /\ pc = "done"
    /\ input.config = TSeq
    /\ tree = TSeq
    /\ \E f \in input.dir : \E h \in DOMAIN f.rules :
           f.rules[h][1].refs = <<<<"l", DICT_ELEM_LABEL>>>>
    /\ Len(written) = 2
    /\ written[1] = "cmd " \o Join(CompoundChars(TSeq, 2))

(* C17: the sort pass contributes nothing to Output.  Whatever rule mapping *)
(* the parser holds while sort_tree runs (exit-hook templates that match   *)
(* paths of the tree included), Output is empty when sort_tree returns,    *)
(* and a run with no step writes the separator line alone.                 *)
C17_SortLeavesNoOutput ==
    /\ pc = "sorted" => output = <<>>
    /\ (pc = "done" /\ input.stepsJson = <<>>) => written = <<SEPARATOR>>

\* sort_tree has returned after a walk whose exit hook at /a/b emitted the
\* leaf's value
C17_Witness ==
    /\ pc = "sorted"
    /\ "/a/b/@exit" \in DOMAIN syntax
    /\ syntax["/a/b/@exit"][1].refs = <<<<TEXT_LEAF_LABEL>>>>
    /\ process_commands(tree, syntax, <<1, 2, 3>>, 3, "/a/b/@exit", <<>>).out = <<"ctor x">>
    /\ Len(yields) = 3
    /\ output = <<>>

(* C18: within one step the active rule mapping is the merge of the step's  *)
(* not yet consumed entries in the iteration order of its entry list: it   *)
(* holds exactly the paths those entries define, a path that several of    *)
(* them define has the templates of the one that comes last in that order, *)
(* and the step's traversal runs with that mapping unchanged.              *)
StepEntries == Translations(syntax_files, steps[stepIdx])

EntryRules(j) == syntax_files[FileIndex(syntax_files, StepEntries[j])].rules

\* the positions of the entry list whose file the loop of lines 66-69 loads
LiveEntries ==
    {j \in 1..Len(StepEntries) :
        /\ ~syntax_files[FileIndex(syntax_files, StepEntries[j])].processed
        /\ \A i \in 1..(j - 1) : StepEntries[i] # StepEntries[j]}

C18_LaterEntryWins ==
    [][ /\ AtStep =>
             /\ DOMAIN syntax' = UNION {DOMAIN EntryRules(j) : j \in LiveEntries}
             /\ \A p \in DOMAIN syntax' :
                    \E j \in LiveEntries :
                        /\ p \in DOMAIN EntryRules(j)
                        /\ syntax'[p] = EntryRules(j)[p]
                        /\ \A k \in LiveEntries : k > j => p \notin DOMAIN EntryRules(k)
        /\ pc = "parse" => syntax' = syntax
      ]_vars

\* a step lists f2.json before f1.json, both define /a/@enter, and its
\* traversal runs with f1.json's template there and f2.json's at /@exit
C18_Witness ==
    /\ pc = "parse"
    /\ stepIdx = 1
    /\ steps[1].translations = <<"f2.json", "f1.json">>
    /\ syntax["/a/@enter"] = Rules1["/a/@enter"]
    /\ syntax["/a/@enter"] # Rules2["/a/@enter"]
    /\ syntax["/@exit"] = Rules2["/@exit"]
    /\ syntax["/a/b"] = Rules1["/a/b"]
    /\ Top.i > 0

(* C19: loading a rule-set entry is cached: the first load of an entry      *)
(* reads and parses its file and no later load of the same entry reads the *)
(* file again, so an entry's file is read at most once however often load  *)
(* is called.                                                              *)
C19_LoadReadsOnce ==
    \A i \in 1..Len(syntax_files) : syntax_files[i].loads <= 1

(* C20: for every node a step's traversal visits, the root included, the    *)
(* key looked up at its enter hook and the key looked up at its exit hook  *)
(* are one node-path prefix followed by the enter marker and by the exit   *)
(* marker; a rule set with the root-level templates "begin" at /@enter and *)
(* "end" at /@exit has both emitted.                                       *)
C20_HookKeysSharePrefix ==
    /\ (pc = "parse" /\ frames # <<>>) =>
          \E prefix \in {Top.path, YieldPath(Top.path)} :
              /\ EnterKey(Top.path) = prefix \o "/" \o ENTER_LABEL
              /\ ExitKey(Top.path) = prefix \o "/" \o EXIT_LABEL
    /\ (pc = "done" /\ input = RootHookInput) => written = <<"begin", "end", SEPARATOR>>

====
